---- MODULE Spec2Model ----
(***************************************************************************)
(* A model of diffsims/libraries/structure_library.py: the StructureLibrary *)
(* class, its direct constructor, its two factory class methods and        *)
(* get_library_size.                                                        *)
(*                                                                         *)
(* A behaviour is one script: Init draws the arguments of one call, the    *)
(* call runs (from_crystal_systems one generator invocation per step), and *)
(* get_library_size is then called on the library that was returned.       *)
(***************************************************************************)
EXTENDS Integers, Sequences, FiniteSets, TLC

VARIABLES
    op,            \* which entry point the script calls
    identifiers,   \* argument `identifiers`
    structures,    \* argument `structures`
    orientations,  \* argument `orientations`; in from_crystal_systems the local list (line 132)
    systems,       \* argument `systems` of from_crystal_systems
    resolution,    \* argument `resolution` of from_crystal_systems
    equal,         \* argument `equal` of from_crystal_systems
    pc,            \* "call" before the call, "loop" inside lines 133-134, "done" after it
    calls,         \* the generator's invocations so far, each its argument tuple
    self,          \* the object __init__ ran on: the attributes set on it
    raised,        \* the exceptions the call raised: <<>> or <<error>>
    returned,      \* TRUE when the call returned a library (the object `self`)
    size_ret,      \* size_ret[to_print]: <<>> or <<the value get_library_size(to_print) returned>>
    stdout         \* the lines the last get_library_size call printed

vars == <<op, identifiers, structures, orientations, systems, resolution, equal,
          pc, calls, self, raised, returned, size_ret, stdout>>

(***************************************************************************)
(* Bounds of the model.                                                    *)
(***************************************************************************)
\* the longest argument sequence (identifiers, structures, orientations, systems)
MaxLen == 2

(***************************************************************************)
(* Python values.                                                          *)
(***************************************************************************)
\* a Python tuple and a Python list: both answer len(), and stay distinct values
PyTuple(items) == [tuple |-> items]
PyList(items) == [list |-> items]

\* the builtin len() on an orientation-set
len(x) == IF "tuple" \in DOMAIN x THEN Len(x.tuple) ELSE Len(x.list)

\* the prefix zip() stops at: the shortest of its arguments
ZipLen(a, b, c) ==
    LET m == IF Len(a) <= Len(b) THEN Len(a) ELSE Len(b)
    IN  IF m <= Len(c) THEN m ELSE Len(c)

\* sequences over S of length 0..n
SeqsUpTo(S, n) == UNION {[1..k -> S] : k \in 0..n}

(***************************************************************************)
(* The inputs the script draws from.                                       *)
(***************************************************************************)
Identifiers == {"a", "b"}
Structures == {"S1", "S2"}
Systems == {"cubic", "hexagonal"}
Resolutions == {1, 2}
EqualModes == {"angle", "area"}

\* orientation-sets: one bare tuple of three angles, and lists of 0..3 orientations
OrientationSets ==
    { PyTuple(<<10, 10, 10>>),
      PyList(<<>>),
      PyList(<< <<0, 0, 0>> >>),
      PyList(<< <<1, 1, 1>> >>),
      PyList(<< <<0, 0, 0>>, <<1, 1, 1>> >>),
      PyList(<< <<0, 0, 0>>, <<1, 1, 1>>, <<0, 90, -180>> >>) }

\* what the orientation-grid generator may return: a list of orientations
GridSets ==
    { PyList(<< <<0, 0, 0>> >>),
      PyList(<< <<0, 0, 0>>, <<1, 1, 1>> >>) }

(***************************************************************************)
(* StructureLibrary.__init__ (lines 40-57).                                *)
(***************************************************************************)
\* ValueError(format string with the two counts filled in), lines 45-46 and 48-49
ValueError(what, n1, n2) ==
    [type |-> "ValueError",
     message |-> <<"Number of identifiers (", n1, ") and ", what, " (", n2,
                   ") must be the same.">>]

\* lines 47-49 tested before lines 44-46
CheckLengths_swapped(ids, structs, oris) ==
    IF Len(ids) # Len(oris)
    THEN <<ValueError("orientations", Len(ids), Len(oris))>>
    ELSE IF Len(ids) # Len(structs)
         THEN <<ValueError("structures", Len(ids), Len(structs))>>
         ELSE <<>>

\* lines 44-49: the two checks in order; the first that fails raises
CheckLengths(ids, structs, oris) ==
    IF Len(ids) # Len(structs)
    THEN <<ValueError("structures", Len(ids), Len(structs))>>
    ELSE IF Len(ids) # Len(oris)
         THEN <<ValueError("orientations", Len(ids), Len(oris))>>
         ELSE <<>>

\* dict.setdefault instead of item assignment: an existing key is kept
SetItem_first(d, ident, struct, ori) ==
    [k \in DOMAIN d \cup {ident} |->
        IF k \in DOMAIN d THEN d[k] ELSE <<struct, ori>>]

\* line 57: self.struct_lib[ident] = (struct, ori)
SetItem(d, ident, struct, ori) ==
    [k \in DOMAIN d \cup {ident} |-> IF k = ident THEN <<struct, ori>> ELSE d[k]]

RECURSIVE ZipLoop(_, _, _, _, _, _)
\* the for loop of lines 56-57 from position i up to position n, on the dict d
ZipLoop(ids, structs, oris, i, n, d) ==
    IF i > n THEN d
    ELSE ZipLoop(ids, structs, oris, i + 1, n,
                 SetItem(d, ids[i], structs[i], oris[i]))

\* the loop stops one entry short
BuildStructLib_short(ids, structs, oris) ==
    ZipLoop(ids, structs, oris, 1, ZipLen(ids, structs, oris) - 1, <<>>)

\* lines 55-57: dict(), then one insertion per zipped position, in order
BuildStructLib(ids, structs, oris) ==
    ZipLoop(ids, structs, oris, 1, ZipLen(ids, structs, oris), <<>>)

\* a fresh object: no attribute set
NewObject ==
    [attrs |-> {}, identifiers |-> <<>>, structures |-> <<>>,
     orientations |-> <<>>, struct_lib |-> <<>>]

\* lines 51-57: the four attribute assignments
SetAttributes(ids, structs, oris) ==
    [attrs |-> {"identifiers", "structures", "orientations", "struct_lib"},
     identifiers |-> ids, structures |-> structs, orientations |-> oris,
     struct_lib |-> BuildStructLib(ids, structs, oris)]

\* the attributes assigned first, the lengths validated afterwards
init_assign_first(ids, structs, oris) ==
    [raised |-> CheckLengths(ids, structs, oris),
     self |-> SetAttributes(ids, structs, oris)]

\* lines 40-57: validate, and only then assign
__init__(ids, structs, oris) ==
    LET errors == CheckLengths(ids, structs, oris)
    IN  IF errors # <<>>
        THEN [raised |-> errors, self |-> NewObject]
        ELSE [raised |-> <<>>, self |-> SetAttributes(ids, structs, oris)]

\* cls(...): __init__ on a fresh object; the object is returned unless __init__ raised
cls(ids, structs, oris) ==
    LET r == __init__(ids, structs, oris)
    IN  [raised |-> r.raised, self |-> r.self, returned |-> r.raised = <<>>]

(***************************************************************************)
(* The factory class methods (lines 89-135).                               *)
(***************************************************************************)
\* the three sequences cut to their common length before delegating
from_orientation_lists_cut(ids, structs, oris) ==
    LET n == ZipLen(ids, structs, oris)
    IN  cls(SubSeq(ids, 1, n), SubSeq(structs, 1, n), SubSeq(oris, 1, n))

\* line 108
from_orientation_lists(ids, structs, oris) == cls(ids, structs, oris)

\* the default mode passed instead of the caller's
GeneratorArgs_default(system, res, eq) == <<system, res, "angle">>

\* line 134: the arguments of get_grid_streographic(system, resolution, equal)
GeneratorArgs(system, res, eq) == <<system, res, eq>>

\* the generated list cut to the number of identifiers before delegating
Delegate_trimmed(ids, structs, oris) ==
    cls(ids, structs,
        IF Len(oris) > Len(ids) THEN SubSeq(oris, 1, Len(ids)) ELSE oris)

\* line 135: return cls(identifiers, structures, orientations)
Delegate(ids, structs, oris) == cls(ids, structs, oris)

(***************************************************************************)
(* get_library_size (lines 59-87).                                         *)
(***************************************************************************)
\* line 83-84: print(self.identifiers[i], "has", len(self.orientations[i]), "number of entries.")
EntryLine(lib, i) ==
    <<lib.identifiers[i], "has", len(lib.orientations[i]), "number of entries.">>

\* line 86: print("\nIn total:", size_library, "number of entries")
TotalLine(size_library) == <<"\nIn total:", size_library, "number of entries">>

\* the test of line 78 written <= 1: an empty orientation-set counted as one entry
Increment_le(ori) == IF len(ori) <= 1 THEN 1 ELSE len(ori)

\* lines 78-81: what position i adds to size_library
Increment(ori) == IF len(ori) = 1 THEN 1 ELSE len(ori)

RECURSIVE SizeLoop(_, _, _, _, _)
\* lines 77-84 from position i on, with the running total and the lines printed so far
SizeLoop(lib, to_print, i, size_library, out) ==
    IF i > Len(lib.orientations) THEN [size_library |-> size_library, out |-> out]
    ELSE SizeLoop(lib, to_print, i + 1,
                  size_library + Increment(lib.orientations[i]),
                  IF to_print = TRUE THEN Append(out, EntryLine(lib, i)) ELSE out)

\* the report's total line counted as an entry of the library
get_library_size_report(lib, to_print) ==
    LET r == SizeLoop(lib, to_print, 1, IF to_print = TRUE THEN 1 ELSE 0, <<>>)
    IN  [ret |-> r.size_library,
         out |-> IF to_print = TRUE
                 THEN Append(r.out, TotalLine(r.size_library))
                 ELSE r.out]

\* lines 76-87
get_library_size(lib, to_print) ==
    LET r == SizeLoop(lib, to_print, 1, 0, <<>>)
    IN  [ret |-> r.size_library,
         out |-> IF to_print = TRUE
                 THEN Append(r.out, TotalLine(r.size_library))
                 ELSE r.out]

(***************************************************************************)
(* The script.                                                             *)
(***************************************************************************)
Init ==
    /\ op \in {"StructureLibrary", "from_orientation_lists", "from_crystal_systems"}
    /\ identifiers \in SeqsUpTo(Identifiers, MaxLen)
    /\ structures \in SeqsUpTo(Structures, MaxLen)
    /\ IF op = "from_crystal_systems"
       THEN /\ orientations = <<>>
            /\ systems \in SeqsUpTo(Systems, MaxLen)
            /\ resolution \in Resolutions
            /\ equal \in EqualModes
       ELSE /\ orientations \in SeqsUpTo(OrientationSets, MaxLen)
            /\ systems = <<>>
            /\ resolution = 1
            /\ equal = "angle"
    /\ pc = "call"
    /\ calls = <<>>
    /\ self = NewObject
    /\ raised = <<>>
    /\ returned = FALSE
    /\ size_ret = [p \in BOOLEAN |-> <<>>]
    /\ stdout = <<>>

\* the outcome r of a constructor call becomes the script's state
Finish(r) ==
    /\ self' = r.self
    /\ raised' = r.raised
    /\ returned' = r.returned
    /\ pc' = "done"

\* StructureLibrary(identifiers, structures, orientations)
Construct ==
    /\ pc = "call"
    /\ op = "StructureLibrary"
    /\ Finish(cls(identifiers, structures, orientations))
    /\ UNCHANGED <<op, identifiers, structures, orientations, systems, resolution,
                   equal, calls, size_ret, stdout>>

\* StructureLibrary.from_orientation_lists(identifiers, structures, orientations)
FromOrientationLists ==
    /\ pc = "call"
    /\ op = "from_orientation_lists"
    /\ Finish(from_orientation_lists(identifiers, structures, orientations))
    /\ UNCHANGED <<op, identifiers, structures, orientations, systems, resolution,
                   equal, calls, size_ret, stdout>>

\* from_crystal_systems, line 132: orientations = []
FromCrystalSystemsEnter ==
    /\ pc = "call"
    /\ op = "from_crystal_systems"
    /\ orientations' = <<>>
    /\ pc' = "loop"
    /\ UNCHANGED <<op, identifiers, structures, systems, resolution, equal, calls,
                   self, raised, returned, size_ret, stdout>>

\* from_crystal_systems, lines 133-134: one generator invocation, its result appended
FromCrystalSystemsLoop ==
    /\ pc = "loop"
    /\ Len(calls) < Len(systems)
    /\ \E grid \in GridSets :
          /\ calls' = Append(calls,
                             GeneratorArgs(systems[Len(calls) + 1], resolution, equal))
          /\ orientations' = Append(orientations, grid)
    /\ UNCHANGED <<op, identifiers, structures, systems, resolution, equal, pc,
                   self, raised, returned, size_ret, stdout>>

\* from_crystal_systems, line 135, once the loop is exhausted
FromCrystalSystemsReturn ==
    /\ pc = "loop"
    /\ Len(calls) = Len(systems)
    /\ Finish(Delegate(identifiers, structures, orientations))
    /\ UNCHANGED <<op, identifiers, structures, orientations, systems, resolution,
                   equal, calls, size_ret, stdout>>

\* library.get_library_size(to_print) on the library the call returned
GetLibrarySize ==
    /\ pc = "done"
    /\ returned
    /\ \E to_print \in BOOLEAN :
          LET r == get_library_size(self, to_print)
          IN  /\ size_ret' = [size_ret EXCEPT ![to_print] = <<r.ret>>]
              /\ stdout' = r.out
    /\ UNCHANGED <<op, identifiers, structures, orientations, systems, resolution,
                   equal, pc, calls, self, raised, returned>>

Next ==
    \/ Construct
    \/ FromOrientationLists
    \/ FromCrystalSystemsEnter
    \/ FromCrystalSystemsLoop
    \/ FromCrystalSystemsReturn
    \/ GetLibrarySize

Spec == Init /\ [][Next]_vars

(***************************************************************************)
(* The properties.                                                         *)
(***************************************************************************)
\* the set of values of a sequence: set(identifiers)
Range(seq) == {seq[i] : i \in 1..Len(seq)}

\* the last position of identifier k in ids
LastIndex(ids, k) == CHOOSE j \in 1..Len(ids) :
    ids[j] = k /\ \A m \in (j + 1)..Len(ids) : ids[m] # k

RECURSIVE SumLen(_, _)
\* len(oris[1]) + ... + len(oris[n])
SumLen(oris, n) == IF n = 0 THEN 0 ELSE SumLen(oris, n - 1) + len(oris[n])

\* the number of orientations an orientation-set stands for: a bare tuple of
\* three angles is one orientation, a list is as many as it has elements
LogicalCount(ori) == IF "tuple" \in DOMAIN ori THEN 1 ELSE Len(ori.list)

RECURSIVE SumLogical(_, _)
SumLogical(oris, n) ==
    IF n = 0 THEN 0 ELSE SumLogical(oris, n - 1) + LogicalCount(oris[n])

DirectDone == pc = "done" /\ op = "StructureLibrary"

EqualLengths ==
    /\ Len(identifiers) = Len(structures)
    /\ Len(identifiers) = Len(orientations)

\* C1: a direct construction from three sequences of equal length succeeds, the
\* library's three sequences have the same length, and the keys of struct_lib
\* are exactly the distinct identifiers (len(set(identifiers)) of them).
C1_EqualLengthsConstruct ==
    (DirectDone /\ EqualLengths) =>
        /\ returned
        /\ raised = <<>>
        /\ self.attrs = {"identifiers", "structures", "orientations", "struct_lib"}
        /\ Len(self.identifiers) = Len(self.structures)
        /\ Len(self.structures) = Len(self.orientations)
        /\ DOMAIN self.struct_lib = Range(identifiers)
        /\ Cardinality(DOMAIN self.struct_lib) = Cardinality(Range(identifiers))
        /\ Cardinality(DOMAIN self.struct_lib) <= Len(identifiers)

\* a library built from a repeated identifier: fewer keys than positions
C1_Witness ==
    /\ DirectDone /\ EqualLengths /\ returned
    /\ Len(identifiers) = MaxLen
    /\ Cardinality(DOMAIN self.struct_lib) < Len(identifiers)

\* C2: a direct construction in which two of the three sequences differ in
\* length raises the length-mismatch ValueError, no attribute has been set on
\* the object, and no library is returned.
C2_MismatchAtomic ==
    (DirectDone /\ ~EqualLengths) =>
        /\ Len(raised) = 1
        /\ raised[1].type = "ValueError"
        /\ self.attrs = {}
        /\ self = NewObject
        /\ ~returned

\* identifiers and structures agree, orientations is the odd one out
C2_Witness ==
    /\ DirectDone
    /\ Len(identifiers) = Len(structures)
    /\ Len(orientations) # Len(identifiers)
    /\ Len(identifiers) > 0
    /\ raised # <<>>

\* C3: after a successful direct construction struct_lib[k] is the pair at the
\* last position of k in identifiers, and the three stored sequences are the
\* inputs, duplicates included, in input order.
C3_LastWriterWins ==
    (DirectDone /\ returned) =>
        /\ \A k \in DOMAIN self.struct_lib :
              self.struct_lib[k] =
                  <<structures[LastIndex(identifiers, k)],
                    orientations[LastIndex(identifiers, k)]>>
        /\ self.identifiers = identifiers
        /\ self.structures = structures
        /\ self.orientations = orientations

\* a repeated identifier whose two positions carry different data
C3_Witness ==
    /\ DirectDone /\ returned
    /\ Len(identifiers) >= 2
    /\ identifiers[1] = identifiers[2]
    /\ structures[1] # structures[2]
    /\ orientations[1] # orientations[2]
    /\ self.struct_lib[identifiers[1]] = <<structures[2], orientations[2]>>

\* C4: get_library_size returns the sum over the positions of
\* len(orientations[i]), one term per position: 1 for a length of 1, the
\* element count for a length of 2 or more, 0 for an empty orientation-set.
C4_SizeIsSumOfLen ==
    \A p \in BOOLEAN :
        size_ret[p] # <<>> =>
            size_ret[p][1] = SumLen(self.orientations, Len(self.orientations))

\* a repeated identifier, lengths 1 and 2, the size computed without the report
C4_Witness ==
    /\ returned
    /\ Len(identifiers) = 2
    /\ identifiers[1] = identifiers[2]
    /\ len(self.orientations[1]) = 1
    /\ len(self.orientations[2]) = 2
    /\ size_ret[FALSE] = <<3>>

\* C5: get_library_size counts a single orientation as one entry whether it is
\* stored as a bare tuple (a, b, c) or as a one-element list [(a, b, c)].
C5_SingleOrientationCountsOnce ==
    \A p \in BOOLEAN :
        size_ret[p] # <<>> =>
            size_ret[p][1] = SumLogical(self.orientations, Len(self.orientations))

\* the lines get_library_size(to_print=True) prints for the library lib
Report(lib) ==
    [i \in 1..(Len(lib.orientations) + 1) |->
        IF i <= Len(lib.orientations)
        THEN <<lib.identifiers[i], "has", len(lib.orientations[i]),
               "number of entries.">>
        ELSE <<"\nIn total:", SumLen(lib.orientations, Len(lib.orientations)),
               "number of entries">>]

\* C6: get_library_size(to_print=True) returns what get_library_size(
\* to_print=False) returns on the same library; the flag only adds the printed
\* lines: one per position with the raw len(orientations[i]), then the total.
C6_ReportFlagKeepsTotal ==
    /\ (size_ret[TRUE] # <<>> /\ size_ret[FALSE] # <<>>) => size_ret[TRUE] = size_ret[FALSE]
    /\ stdout # <<>> => (size_ret[TRUE] # <<>> /\ stdout = Report(self))
    /\ (size_ret[TRUE] = <<>>) => stdout = <<>>

\* both calls made on a library of MaxLen entries, the report printed last
C6_Witness ==
    /\ returned
    /\ Len(self.orientations) = MaxLen
    /\ size_ret[TRUE] # <<>>
    /\ size_ret[FALSE] # <<>>
    /\ Len(stdout) = MaxLen + 1

FromCrystalSystems == op = "from_crystal_systems"

\* the invocations the generator should have seen after n systems
ExpectedCalls(n) == [i \in 1..n |-> <<systems[i], resolution, equal>>]

\* C7: from_crystal_systems with len(systems) = len(identifiers) =
\* len(structures) invokes the generator once per system, in the order of
\* systems, with (system, resolution, equal); the library's orientations are
\* the generator's results in that order.
C7_GeneratorOncePerSystem ==
    (FromCrystalSystems /\ Len(systems) = Len(identifiers)
                        /\ Len(systems) = Len(structures)) =>
        /\ Len(calls) <= Len(systems)
        /\ calls = ExpectedCalls(Len(calls))
        /\ Len(orientations) = Len(calls)
        /\ pc = "done" =>
              /\ calls = ExpectedCalls(Len(systems))
              /\ returned
              /\ self.orientations = orientations

\* two different systems, a non-default mode, two different generated grids
C7_Witness ==
    /\ FromCrystalSystems /\ pc = "done" /\ returned
    /\ Len(systems) = 2
    /\ systems[1] # systems[2]
    /\ equal = "area"
    /\ self.orientations[1] # self.orientations[2]
    /\ Len(calls) = 2

\* C8: from_orientation_lists(ids, structs, oris) has the outcome of
\* StructureLibrary(ids, structs, oris): the same error when that one fails,
\* otherwise a library with the same four attributes.
C8_FromOrientationListsIsConstructor ==
    (op = "from_orientation_lists" /\ pc = "done") =>
        LET direct == __init__(identifiers, structures, orientations)
        IN  /\ raised = direct.raised
            /\ returned = (direct.raised = <<>>)
            /\ self.attrs = direct.self.attrs
            /\ self.identifiers = direct.self.identifiers
            /\ self.structures = direct.self.structures
            /\ self.orientations = direct.self.orientations
            /\ self.struct_lib = direct.self.struct_lib

\* one failing and one succeeding call are needed; the failing one is named
C8_Witness ==
    /\ op = "from_orientation_lists" /\ pc = "done"
    /\ Len(identifiers) = Len(structures)
    /\ Len(orientations) < Len(identifiers)
    /\ raised # <<>>
    /\ ~returned

\* C9: a direct construction raises at most one error, chosen by the order of
\* the checks: identifiers-vs-structures whenever those two lengths differ,
\* whatever len(orientations) is; identifiers-vs-orientations exactly when
\* identifiers and structures agree and orientations does not.
C9_FirstFailingCheckRaises ==
    DirectDone =>
        /\ Len(raised) <= 1
        /\ Len(identifiers) # Len(structures) =>
              raised = <<ValueError("structures", Len(identifiers), Len(structures))>>
        /\ (raised = <<ValueError("orientations", Len(identifiers), Len(orientations))>>)
              <=> (/\ Len(identifiers) = Len(structures)
                   /\ Len(identifiers) # Len(orientations))

\* both checks would fail: the three lengths differ pairwise
C9_Witness ==
    /\ DirectDone
    /\ Len(identifiers) # Len(structures)
    /\ Len(identifiers) # Len(orientations)
    /\ Len(structures) # Len(orientations)
    /\ Len(raised) = 1

\* C10: from_crystal_systems checks no length before generating: with
\* len(identifiers) = len(structures) and len(systems) different from it, the
\* generator is invoked once for every system, and only then the call fails
\* with the constructor's identifiers-vs-orientations error; nothing is returned.
C10_MismatchSurfacesAfterGenerating ==
    (FromCrystalSystems /\ Len(identifiers) = Len(structures)
                        /\ Len(systems) # Len(identifiers)) =>
        /\ ~returned
        /\ pc # "done" => raised = <<>>
        /\ pc = "done" =>
              /\ calls = ExpectedCalls(Len(systems))
              /\ raised = <<ValueError("orientations", Len(identifiers), Len(systems))>>
              /\ self = NewObject

\* more systems than identifiers: every system generated, then the failure
C10_Witness ==
    /\ FromCrystalSystems /\ pc = "done"
    /\ Len(identifiers) = Len(structures)
    /\ Len(identifiers) > 0
    /\ Len(systems) > Len(identifiers)
    /\ Len(calls) = Len(systems)
    /\ raised # <<>>

====
